---- MODULE Spec2Model ----
(***************************************************************************)
(* PC-Guardian server: the configuration change detection engine.          *)
(*                                                                         *)
(*   - config_comparator.py : the diff of two stored configurations        *)
(*   - kafka_consumer.py    : the ingestion worker (poll loop, one         *)
(*                            storage session per payload)                 *)
(*   - app.py               : the request handlers that write: the offline *)
(*                            check of the read-side queries, and          *)
(*                            accept-as-baseline                           *)
(*   - database.py          : the tables pcs, pc_configurations,           *)
(*                            change_events                                *)
(*   - notifications.py     : send_alert                                   *)
(*                                                                         *)
(* The worker is a thread and runs beside the request handlers; the        *)
(* handlers are coroutines without an await in their bodies, so they run   *)
(* one at a time on the event loop.  Each session reads the committed      *)
(* tables and writes them at its commit.                                   *)
(***************************************************************************)
EXTENDS Integers, Sequences, FiniteSets, TLC

VARIABLES
    pcs,             \* table pcs: pc_id -> [status, last_seen]
    configurations,  \* table pc_configurations: rows in id order
    events,          \* table change_events: rows in id order
    alerts,          \* send_alert invocations so far, in order
    now,             \* datetime.utcnow(), in minutes
    running,         \* PCGuardianConsumer.running
    consumer,        \* PCGuardianConsumer.consumer: "none", "open", "closed"
    wpc,             \* position of the worker thread
    exitCause,       \* why the worker thread left _run ("" while it has not)
    batch,           \* messages of the polled batch not processed yet
    sess,            \* the worker's session: locals of _process_configuration
    outcome,         \* how the last _process_configuration call ended
    nPolled,         \* messages delivered by the transport so far
    req,             \* the request handler in progress on the event loop
    resp,            \* the response of the last finished write/offline-check request
    notifier,        \* NotificationService: which channels are configured
    cmp,             \* a call of ConfigComparator.compare_configurations on its own
    lc,              \* callers of start() / stop() and the threads they spawned
    race             \* independent workers registering machines in one database

vars == <<pcs, configurations, events, alerts, now, running, consumer, wpc,
          exitCause, batch, sess, outcome, nPolled, req, resp, notifier, cmp,
          lc, race>>

db == <<pcs, configurations, events>>

-----------------------------------------------------------------------------
(* Bounds of the model.                                                    *)

MaxPolled == 3       \* messages the transport delivers in one behaviour
MaxBatch == 2        \* messages in one polled batch
MaxTicks == 2        \* clock steps in one behaviour
TickMinutes == 10    \* minutes in one clock step

(* Program constants.                                                      *)

OfflineThresholdMinutes == 10

-----------------------------------------------------------------------------
(* Python values.  None is the empty tuple and a present value x is <<x>>, *)
(* for Optional results and for nullable Text columns alike.  A component  *)
(* record (dict) is a function from attribute names to scalars; a scalar   *)
(* is a string, NoneV standing for JSON null.                              *)

None == <<>>
Some(x) == <<x>>
NoneV == "None"

IsNone(o) == o = None
Val(o) == o[1]

\* Python truth value of a scalar: None and the empty string are false.
Falsy(v) == v \in {NoneV, ""}

\* Python truth value of a dict or a list: empty is false.
Empty(c) == c = <<>>

\* d.get(k): the value, or None when the key is missing.
Get(d, k) == IF k \in DOMAIN d THEN d[k] ELSE NoneV

\* a or b, on scalars
Or(a, b) == IF Falsy(a) THEN b ELSE a

-----------------------------------------------------------------------------
(* database.py: PCConfiguration.set_component / get_component.             *)

\* json.dumps(data) if data else None
set_component(data) == IF IsNone(data) \/ Empty(Val(data)) THEN None ELSE data

\* json.loads(json_data) if json_data else None
get_component(column) == IF IsNone(column) THEN None ELSE column

\* ChangeEvent.set_old_value / set_new_value
set_value(value) == IF IsNone(value) \/ Empty(Val(value)) THEN None ELSE value

SingleComponents == <<"motherboard", "cpu", "gpu", "psu">>

-----------------------------------------------------------------------------
(* config_comparator.py                                                    *)

\* normalize(d): the dict without the keys whose value is None
normalize(d) ==
    LET keep == {k \in DOMAIN d : d[k] # NoneV}
    IN  [k \in keep |-> d[k]]

components_equal_raw(comp1, comp2) == comp1 = comp2
components_equal(comp1, comp2) == normalize(comp1) = normalize(comp2)

Event(ctype, etype, old, new) ==
    [component_type |-> ctype, event_type |-> etype,
     old_value |-> old, new_value |-> new]

compare_component_both(component_name, baseline, current) ==
    LET baseline_data == get_component(baseline[component_name])
        current_data == get_component(current[component_name])
    IN  (IF IsNone(baseline_data) THEN <<>>
         ELSE <<Event(component_name, "removed", baseline_data, None)>>)
        \o (IF IsNone(current_data) THEN <<>>
            ELSE <<Event(component_name, "added", None, current_data)>>)
\* _compare_component: baseline_data, current_data are Optional dicts
compare_component(component_name, baseline, current) ==
    LET baseline_data == get_component(baseline[component_name])
        current_data == get_component(current[component_name])
        b == ~IsNone(baseline_data) /\ ~Empty(Val(baseline_data))
        c == ~IsNone(current_data) /\ ~Empty(Val(current_data))
    IN  IF b /\ ~c
          THEN <<Event(component_name, "removed", baseline_data, None)>>
        ELSE IF ~b /\ c
          THEN <<Event(component_name, "added", None, current_data)>>
        ELSE IF b /\ c /\ ~components_equal(Val(baseline_data), Val(current_data))
          THEN <<Event(component_name, "replaced", baseline_data, current_data)>>
        ELSE <<>>

(* A Python dict is a sequence of <<key, value>> in insertion order; an    *)
(* assignment to a key already there replaces the value in place.          *)
DictKeys(d) == {d[i][1] : i \in 1..Len(d)}
DictGet(d, k) == d[CHOOSE i \in 1..Len(d) : d[i][1] = k][2]
DictPut(d, k, v) ==
    IF k \in DictKeys(d)
      THEN [i \in 1..Len(d) |-> IF d[i][1] = k THEN <<k, v>> ELSE d[i]]
      ELSE Append(d, <<k, v>>)

\* get_component(name) or []
ListOf(config, name) ==
    LET data == get_component(config[name])
    IN  IF IsNone(data) THEN <<>> ELSE Val(data)

ram_key(module, n) ==
    Or(Or(Get(module, "serial_number"), Get(module, "slot")), "slot_" \o ToString(n))

storage_key(device, n) ==
    Or(Get(device, "serial_number"), "device_" \o ToString(n))

network_key(adapter, n) == Get(adapter, "mac_address")

\* the dict built by the loop over the first n items of the list
RECURSIVE BuildDict(_, _, _)
BuildDict(items, n, kind) ==
    IF n = 0 THEN <<>>
    ELSE LET d == BuildDict(items, n - 1, kind)
             item == items[n]
             key == CASE kind = "ram" -> ram_key(item, Len(d))
                      [] kind = "storage" -> storage_key(item, Len(d))
                      [] OTHER -> network_key(item, Len(d))
         IN  DictPut(d, key, item)

OnlyInAll(d, other, n, ctype, etype) ==
    [i \in 1..n |-> IF etype = "removed"
                      THEN Event(ctype, etype, Some(d[i][2]), None)
                      ELSE Event(ctype, etype, None, Some(d[i][2]))]
\* the events of one loop: for key, item in d.items(): if key not in other
RECURSIVE OnlyIn(_, _, _, _, _)
OnlyIn(d, other, n, ctype, etype) ==
    IF n = 0 THEN <<>>
    ELSE LET rest == OnlyIn(d, other, n - 1, ctype, etype)
             key == d[n][1]
             item == d[n][2]
         IN  IF key \in DictKeys(other) THEN rest
             ELSE Append(rest, IF etype = "removed"
                                 THEN Event(ctype, etype, Some(item), None)
                                 ELSE Event(ctype, etype, None, Some(item)))

ReplacedNever(bd, cd, order, n, ctype) == <<>>
RECURSIVE ReplacedUnlessMoved(_, _, _, _, _)
ReplacedUnlessMoved(bd, cd, order, n, ctype) ==
    IF n = 0 THEN <<>>
    ELSE LET rest == ReplacedUnlessMoved(bd, cd, order, n - 1, ctype)
             key == order[n]
         IN  IF \/ components_equal(DictGet(bd, key), DictGet(cd, key))
                \/ \E i \in 1..Len(cd) : cd[i][2] = DictGet(bd, key)
               THEN rest
             ELSE Append(rest, Event(ctype, "replaced",
                                     Some(DictGet(bd, key)), Some(DictGet(cd, key))))
\* the events of the loop over the common keys, visited in the order `order`
RECURSIVE Replaced(_, _, _, _, _)
Replaced(bd, cd, order, n, ctype) ==
    IF n = 0 THEN <<>>
    ELSE LET rest == Replaced(bd, cd, order, n - 1, ctype)
             key == order[n]
         IN  IF components_equal(DictGet(bd, key), DictGet(cd, key)) THEN rest
             ELSE Append(rest, Event(ctype, "replaced",
                                     Some(DictGet(bd, key)), Some(DictGet(cd, key))))

\* the orders in which a set can be iterated
Orders(S) ==
    {o \in [1..Cardinality(S) -> S] : \A i, j \in 1..Cardinality(S) : i # j => o[i] # o[j]}

ram_dict(config) ==
    LET l == ListOf(config, "ram_modules") IN BuildDict(l, Len(l), "ram")
storage_dict(config) ==
    LET l == ListOf(config, "storage_devices") IN BuildDict(l, Len(l), "storage")
network_dict(config) ==
    LET l == ListOf(config, "network_adapters") IN BuildDict(l, Len(l), "network")

\* _compare_ram_modules, the common keys (a set) iterated in `order`
compare_ram_modules(baseline, current, order) ==
    LET bd == ram_dict(baseline)
        cd == ram_dict(current)
    IN  OnlyIn(bd, cd, Len(bd), "ram", "removed")
        \o OnlyIn(cd, bd, Len(cd), "ram", "added")
        \o Replaced(bd, cd, order, Len(order), "ram")

\* _compare_storage_devices
compare_storage_devices(baseline, current, order) ==
    LET bd == storage_dict(baseline)
        cd == storage_dict(current)
    IN  OnlyIn(bd, cd, Len(bd), "storage", "removed")
        \o OnlyIn(cd, bd, Len(cd), "storage", "added")
        \o Replaced(bd, cd, order, Len(order), "storage")

compare_network_adapters_replaced(baseline, current) ==
    LET bd == network_dict(baseline)
        cd == network_dict(current)
        order == CHOOSE o \in Orders(DictKeys(bd) \cap DictKeys(cd)) : TRUE
    IN  OnlyIn(bd, cd, Len(bd), "network", "removed")
        \o OnlyIn(cd, bd, Len(cd), "network", "added")
        \o Replaced(bd, cd, order, Len(order), "network")
\* _compare_network_adapters
compare_network_adapters(baseline, current) ==
    LET bd == network_dict(baseline)
        cd == network_dict(current)
    IN  OnlyIn(bd, cd, Len(bd), "network", "removed")
        \o OnlyIn(cd, bd, Len(cd), "network", "added")

compare_in_order_gpu_first(baseline, current, ram_order, storage_order) ==
    compare_component("motherboard", baseline, current)
    \o compare_component("cpu", baseline, current)
    \o compare_component("gpu", baseline, current)
    \o compare_ram_modules(baseline, current, ram_order)
    \o compare_storage_devices(baseline, current, storage_order)
    \o compare_network_adapters(baseline, current)
    \o compare_component("psu", baseline, current)
\* compare_configurations for one iteration order of each set of common keys
compare_in_order(baseline, current, ram_order, storage_order) ==
    compare_component("motherboard", baseline, current)
    \o compare_component("cpu", baseline, current)
    \o compare_ram_modules(baseline, current, ram_order)
    \o compare_storage_devices(baseline, current, storage_order)
    \o compare_component("gpu", baseline, current)
    \o compare_network_adapters(baseline, current)
    \o compare_component("psu", baseline, current)

\* compare_configurations: the event lists it can return.  The common keys
\* are a Python set (dict.keys() & dict.keys()), whose iteration order is not
\* fixed by the program.
compare_configurations(baseline, current) ==
    {compare_in_order(baseline, current, ro, so) :
        ro \in Orders(DictKeys(ram_dict(baseline)) \cap DictKeys(ram_dict(current))),
        so \in Orders(DictKeys(storage_dict(baseline)) \cap DictKeys(storage_dict(current)))}

-----------------------------------------------------------------------------
(* The fleet and what its agents report.                                   *)

MIDs == {"m1", "m2"}

NoTime == -1         \* a NULL DateTime

NoComponents ==
    [motherboard |-> None, cpu |-> None, ram_modules |-> <<>>,
     storage_devices |-> <<>>, gpu |-> None, network_adapters |-> <<>>,
     psu |-> None]

RamR1 == [serial_number |-> "R1", slot |-> "1"]
RamR2 == [serial_number |-> "R2", slot |-> "2"]

HwA == [NoComponents EXCEPT
          !.cpu = Some([model |-> "i5", serial_number |-> "A1"]),
          !.ram_modules = <<RamR1>>]

HwB == [NoComponents EXCEPT
          !.cpu = Some([model |-> "i7", serial_number |-> "A1"]),
          !.ram_modules = <<RamR1, RamR2>>]

Hardware == {HwA, HwB}

\* The decoded message values the transport can deliver at time t: m1
\* reports either hardware, m2 one hardware or no component at all, each
\* stamped with the time of capture.  A message without machine_id is one
\* PCConfiguration.from_dict rejects.
Payloads(t) ==
    [pc_id : {"m1"}, timestamp : {t}, hw : Hardware]
    \cup [pc_id : {"m2"}, timestamp : {t}, hw : {HwA, NoComponents}]
    \cup {[pc_id |-> NoneV, timestamp |-> t, hw |-> NoComponents]}

-----------------------------------------------------------------------------
(* kafka_consumer.py: _create_db_configuration                             *)

\* common.models.PCConfiguration.from_dict: raises on a payload without
\* machine_id
from_dict_raises(config_data) == config_data.pc_id = NoneV

\* if config.x: db_config.set_component('x', config.x.to_dict())
SingleColumn(c) == IF IsNone(c) THEN None ELSE set_component(c)
ListColumn(l) == IF Empty(l) THEN None ELSE set_component(Some(l))

create_db_configuration(pc_id, config, is_baseline) ==
    [pc_id |-> pc_id,
     is_baseline |-> is_baseline,
     timestamp |-> config.timestamp,
     motherboard |-> SingleColumn(config.hw.motherboard),
     cpu |-> SingleColumn(config.hw.cpu),
     ram_modules |-> ListColumn(config.hw.ram_modules),
     storage_devices |-> ListColumn(config.hw.storage_devices),
     gpu |-> SingleColumn(config.hw.gpu),
     network_adapters |-> ListColumn(config.hw.network_adapters),
     psu |-> SingleColumn(config.hw.psu)]

-----------------------------------------------------------------------------
(* Queries on the committed tables.                                        *)

RowIdsIn(table, pc_id, is_baseline) ==
    {i \in 1..Len(table) :
        /\ table[i].pc_id = pc_id
        /\ table[i].is_baseline = is_baseline}

RowIds(pc_id, is_baseline) == RowIdsIn(configurations, pc_id, is_baseline)

\* query(PCConfiguration).filter_by(pc_id, is_baseline=True).first():
\* the rows one of which the query returns (no ORDER BY)
BaselineCandidates(pc_id) == RowIds(pc_id, TRUE)

\* query(...).filter_by(pc_id, is_baseline=False)
\*     .order_by(timestamp.desc()).first(): the rows one of which it returns
LatestCandidatesAny(pc_id) ==
    {i \in RowIds(pc_id, FALSE) \cup RowIds(pc_id, TRUE) :
        \A j \in RowIds(pc_id, FALSE) \cup RowIds(pc_id, TRUE) :
            configurations[j].timestamp <= configurations[i].timestamp}
LatestCandidates(pc_id) ==
    {i \in RowIds(pc_id, FALSE) :
        \A j \in RowIds(pc_id, FALSE) :
            configurations[j].timestamp <= configurations[i].timestamp}

Baselines(pc_id) == RowIds(pc_id, TRUE)
Snapshots(pc_id) == RowIds(pc_id, TRUE) \cup RowIds(pc_id, FALSE)
EventsOf(pc_id) == {i \in 1..Len(events) : events[i].pc_id = pc_id}

-----------------------------------------------------------------------------
(* The state after the application's startup: lifespan has built the       *)
(* consumer and called start(), the tables are empty.                      *)

NoSess == [txn |-> 0]
Idle == [op |-> "idle"]
NoOutcome == [result |-> "none"]
NoResp == [op |-> "none", code |-> 0]

\* TELEGRAM_BOT_TOKEN, TELEGRAM_CHAT_ID, SMTP_USER, SMTP_PASSWORD and
\* EMAIL_TO unset: no channel is configured
NoChannels == [telegram |-> FALSE, email |-> FALSE]
NoCall == [pc |-> "none"]
\* no caller of start() / stop() besides lifespan, no second worker
NoLifecycle == [calls |-> 0]
NoRace == [w |-> <<>>]

Init ==
    /\ pcs = <<>>
    /\ configurations = <<>>
    /\ events = <<>>
    /\ alerts = <<>>
    /\ now = 0
    /\ running = TRUE
    /\ consumer = "none"
    /\ wpc = "run"
    /\ exitCause = ""
    /\ batch = <<>>
    /\ sess = NoSess
    /\ outcome = NoOutcome
    /\ nPolled = 0
    /\ req = Idle
    /\ resp = NoResp
    /\ notifier = NoChannels
    /\ cmp = NoCall
    /\ lc = NoLifecycle
    /\ race = NoRace

-----------------------------------------------------------------------------
(* kafka_consumer.py: the worker thread, _run.                             *)

\* the thread leaves _run: the finally clause closes the consumer
Exit(cause) ==
    /\ wpc' = "exited"
    /\ exitCause' = cause
    /\ consumer' = IF consumer = "none" THEN "none" ELSE "closed"

\* if not self.consumer: self._create_consumer()  -- before the try
W_CreateOk ==
    /\ wpc = "run"
    /\ consumer' = "open"
    /\ wpc' = "loop"
    /\ UNCHANGED <<db, alerts, now, running, exitCause, batch, sess, outcome,
                   nPolled, req, resp>>
    /\ UNCHANGED <<notifier, cmp, lc, race>>

\* _create_consumer raises: the exception ends the thread
W_CreateRaises ==
    /\ wpc = "run"
    /\ wpc' = "exited"
    /\ exitCause' = "create"
    /\ UNCHANGED <<db, alerts, now, running, consumer, batch, sess, outcome,
                   nPolled, req, resp>>
    /\ UNCHANGED <<notifier, cmp, lc, race>>

\* while self.running
W_Check ==
    /\ wpc = "loop"
    /\ IF running
         THEN wpc' = "poll" /\ UNCHANGED <<exitCause, consumer>>
         ELSE Exit("stopped")
    /\ UNCHANGED <<db, alerts, now, running, batch, sess, outcome, nPolled,
                   req, resp>>
    /\ UNCHANGED <<notifier, cmp, lc, race>>

\* poll returns an empty message_pack after the poll timeout
W_PollEmpty ==
    /\ wpc = "poll" /\ consumer = "open"
    /\ wpc' = "loop"
    /\ UNCHANGED <<db, alerts, now, running, consumer, exitCause, batch, sess,
                   outcome, nPolled, req, resp>>
    /\ UNCHANGED <<notifier, cmp, lc, race>>

\* poll returns messages: message.value is the deserialized payload
W_PollBatch ==
    /\ wpc = "poll" /\ consumer = "open"
    /\ \E n \in 1..MaxBatch :
         /\ nPolled + n <= MaxPolled
         /\ \E values \in [1..n -> Payloads(now)] :
              batch' = [i \in 1..n |-> [txn |-> nPolled + i, value |-> values[i]]]
         /\ nPolled' = nPolled + n
    /\ wpc' = "msg"
    /\ UNCHANGED <<db, alerts, now, running, consumer, exitCause, sess, outcome,
                   req, resp>>
    /\ UNCHANGED <<notifier, cmp, lc, race>>

\* poll raises KafkaError: except KafkaError
W_PollKafkaError ==
    /\ wpc = "poll" /\ consumer = "open"
    /\ wpc' = "reconnect"
    /\ UNCHANGED <<db, alerts, now, running, consumer, exitCause, batch, sess,
                   outcome, nPolled, req, resp>>
    /\ UNCHANGED <<notifier, cmp, lc, race>>

\* A fetched record is not UTF-8 JSON: value_deserializer raises inside poll.
\* The error is no KafkaError and is raised outside the try around
\* _process_configuration: the outer except Exception ends the loop.
W_PollUndecodable ==
    /\ wpc = "poll" /\ consumer = "open"
    /\ nPolled < MaxPolled
    /\ nPolled' = nPolled + 1
    /\ Exit("payload")
    /\ UNCHANGED <<db, alerts, now, running, batch, sess, outcome, req, resp>>
    /\ UNCHANGED <<notifier, cmp, lc, race>>

\* poll on the consumer that stop() has closed raises
W_PollClosed ==
    /\ wpc = "poll" /\ consumer = "closed"
    /\ Exit("closed")
    /\ UNCHANGED <<db, alerts, now, running, batch, sess, outcome, nPolled,
                   req, resp>>
    /\ UNCHANGED <<notifier, cmp, lc, race>>

\* except KafkaError: close, self.consumer = None, self._create_consumer()
W_ReconnectOk ==
    /\ wpc = "reconnect"
    /\ consumer' = "open"
    /\ wpc' = "loop"
    /\ UNCHANGED <<db, alerts, now, running, exitCause, batch, sess, outcome,
                   nPolled, req, resp>>
    /\ UNCHANGED <<notifier, cmp, lc, race>>

\* _create_consumer raises inside the handler: the outer except ends the loop
W_ReconnectRaises ==
    /\ wpc = "reconnect"
    /\ consumer' = "none"
    /\ wpc' = "exited"
    /\ exitCause' = "transport"
    /\ UNCHANGED <<db, alerts, now, running, batch, sess, outcome, nPolled,
                   req, resp>>
    /\ UNCHANGED <<notifier, cmp, lc, race>>

-----------------------------------------------------------------------------
(* kafka_consumer.py: _process_configuration, one session per message.     *)

\* status of a newly registered PC
NewPcStatusDefault == "unknown"
NewPcStatusChanged == "changed"
NewPcStatus == "normal"

\* status after the comparison with the baseline
DiffStatusAlways(evs) == "changed"
DiffStatus(evs) == IF evs # <<>> THEN "changed" ELSE "normal"

\* status when the PC had no baseline
NoBaselineStatus == "normal"

EventRowSwapped(s, i) ==
    [pc_id |-> s.config.pc_id,
     component_type |-> s.events[i].component_type,
     event_type |-> s.events[i].event_type,
     old_value |-> set_value(s.events[i].new_value),
     new_value |-> set_value(s.events[i].old_value),
     notified |-> FALSE,
     txn |-> s.txn,
     idx |-> i]
\* the ChangeEvent row built for the i-th event of the session
EventRow(s, i) ==
    [pc_id |-> s.config.pc_id,
     component_type |-> s.events[i].component_type,
     event_type |-> s.events[i].event_type,
     old_value |-> set_value(s.events[i].old_value),
     new_value |-> set_value(s.events[i].new_value),
     notified |-> FALSE,
     txn |-> s.txn,
     idx |-> i]

\* the rows db.add() has put in the session
SessionEvents(s) == [i \in 1..Len(s.events) |-> EventRow(s, i)]

SessionConfiguration(s) ==
    create_db_configuration(s.config.pc_id, s.config, s.path # "diff")

\* the pcs row the session writes
SessionPcNoElse(s) ==
    CASE s.path = "new" ->
           [status |-> NewPcStatus, last_seen |-> NoTime]
      [] s.path = "diff" ->
           [status |-> IF s.events # <<>> THEN "changed" ELSE Val(s.pc).status,
            last_seen |-> s.config.timestamp]
      [] OTHER ->
           [status |-> NoBaselineStatus, last_seen |-> s.config.timestamp]
SessionPc(s) ==
    CASE s.path = "new" ->
           [status |-> NewPcStatus, last_seen |-> NoTime]
      [] s.path = "diff" ->
           [status |-> DiffStatus(s.events), last_seen |-> s.config.timestamp]
      [] OTHER ->
           [status |-> NoBaselineStatus, last_seen |-> s.config.timestamp]

\* the tables after db.commit() of session s
CommitPcs(s) ==
    [m \in DOMAIN pcs \cup {s.config.pc_id} |->
        IF m = s.config.pc_id THEN SessionPc(s) ELSE pcs[m]]
CommitConfigurations(s) == Append(configurations, SessionConfiguration(s))
CommitEventsReplace(s) == SessionEvents(s)
CommitEventsExtra(s) ==
    events \o SessionEvents(s)
    \o (IF s.events = <<>> THEN <<>>
        ELSE <<[EventRow(s, 1) EXCEPT !.idx = Len(s.events) + 1]>>)
CommitEvents(s) == events \o SessionEvents(s)

\* the tables after db.rollback() of session s
RollbackPcs(s) == pcs
RollbackConfigurationsKept(s) ==
    IF s.path = "error" THEN configurations
    ELSE Append(configurations, SessionConfiguration(s))
RollbackConfigurations(s) == configurations
RollbackEvents(s) == events

\* the call returns (finally: db.close()); the for loop takes the next message
Return(s, result, rest) ==
    /\ outcome' = [result |-> result, path |-> s.path, pc_id |-> s.config.pc_id,
                    pc |-> s.pc, n_events |-> Len(s.events)]
    /\ sess' = NoSess
    /\ wpc' = IF rest = <<>> THEN "loop" ELSE "msg"

\* except Exception: logger.error, db.rollback()
Rollback(s, rest) ==
    /\ pcs' = RollbackPcs(s)
    /\ configurations' = RollbackConfigurations(s)
    /\ events' = RollbackEvents(s)
    /\ Return(s, "dropped", rest)

\* SessionLocal(), from_dict, query(PC).filter_by(pc_id).first(); for a new
\* PC also db.add(pc), db.flush(), db.add(baseline)
W_Open ==
    /\ wpc = "msg"
    /\ LET msg == Head(batch)
           s == [txn |-> msg.txn, config |-> msg.value, path |-> "error",
                 pc |-> None, baseline |-> 0, events |-> <<>>, idx |-> 1]
       IN  /\ batch' = Tail(batch)
           /\ IF from_dict_raises(msg.value)
                THEN Rollback(s, Tail(batch)) /\ UNCHANGED alerts
              ELSE IF msg.value.pc_id \notin DOMAIN pcs
                THEN /\ sess' = [s EXCEPT !.path = "new"]
                     /\ wpc' = "commit"
                     /\ UNCHANGED <<db, alerts, outcome>>
              ELSE   /\ sess' = [s EXCEPT !.path = "registered",
                                          !.pc = Some(pcs[msg.value.pc_id])]
                     /\ wpc' = "baseline"
                     /\ UNCHANGED <<db, alerts, outcome>>
    /\ UNCHANGED <<now, running, consumer, exitCause, nPolled, req, resp>>
    /\ UNCHANGED <<notifier, cmp, lc, race>>

\* pc.last_seen = ...; query the baseline; compare_configurations
W_Baseline ==
    /\ wpc = "baseline"
    /\ IF BaselineCandidates(sess.config.pc_id) = {}
         THEN /\ sess' = [sess EXCEPT !.path = "baseline"]
              /\ wpc' = "commit"
         ELSE \E b \in BaselineCandidates(sess.config.pc_id) :
              \E evs \in compare_configurations(
                            configurations[b],
                            create_db_configuration(sess.config.pc_id, sess.config, FALSE)) :
                /\ sess' = [sess EXCEPT !.path = "diff", !.baseline = b,
                                         !.events = evs]
                /\ wpc' = IF evs # <<>> THEN "alert" ELSE "commit"
    /\ UNCHANGED <<db, alerts, now, running, consumer, exitCause, batch,
                   outcome, nPolled, req, resp>>
    /\ UNCHANGED <<notifier, cmp, lc, race>>

(* notifications.py: send_alert.  What became of one channel for one alert: *)
(* skipped without configuration; otherwise one attempt, which succeeds or  *)
(* raises inside the try of _send_telegram / _send_email and is logged.     *)
Skipped == [result |-> "skipped", attempts |-> 0]
Sent == [result |-> "sent", attempts |-> 1]
Failed == [result |-> "failed", attempts |-> 1]
\* the call blocks on a peer that never answers and does not return
Hung == [result |-> "hung", attempts |-> 1]

\* the timeout of the blocking network calls of a channel, in seconds:
\* requests.post(url, json=data, timeout=10); smtplib.SMTP(host, port) is
\* given none, and no default socket timeout is set anywhere
NoTimeout == 0
telegram_timeout == 10
smtp_timeout == NoTimeout

\* one attempt on a channel: it succeeds, raises inside the try, or, when no
\* timeout bounds the socket operations, waits for the peer forever
Attempt(timeout) ==
    {Sent, Failed} \cup (IF timeout = NoTimeout THEN {Hung} ELSE {})

\* if self.telegram_bot_token and self.telegram_chat_id: self._send_telegram
\* (without the requests library the call logs a warning: a failure)
send_telegram(configured) ==
    IF configured THEN Attempt(telegram_timeout) ELSE {Skipped}

\* if self.smtp_user and self.smtp_password and self.email_to: self._send_email
send_email(configured) ==
    IF configured THEN Attempt(smtp_timeout) ELSE {Skipped}

\* the outcomes of send_alert with the channels of n
send_alert_first_failure(n) ==
    {[telegram |-> t, email |-> IF t = Failed THEN Skipped ELSE e] :
        t \in send_telegram(n.telegram), e \in send_email(n.email)}
send_alert(n) ==
    [telegram : send_telegram(n.telegram), email : send_email(n.email)]

\* in the loop over events: db.add(db_event); send_alert(pc, event)
W_Alert ==
    /\ wpc = "alert"
    /\ \E sent \in send_alert(notifier) :
         IF Hung \in {sent.telegram, sent.email}
           THEN \* send_alert does not return: the thread stays in the call
                /\ wpc' = "blocked"
                /\ UNCHANGED <<alerts, sess>>
           ELSE /\ alerts' = Append(alerts,
                                    [txn |-> sess.txn, idx |-> sess.idx,
                                     pc_id |-> sess.config.pc_id,
                                     event |-> sess.events[sess.idx],
                                     telegram |-> sent.telegram,
                                     email |-> sent.email])
                /\ sess' = [sess EXCEPT !.idx = @ + 1]
                /\ wpc' = IF sess.idx = Len(sess.events)
                            THEN "commit" ELSE "alert"
    /\ UNCHANGED <<db, now, running, consumer, exitCause, batch, outcome,
                   nPolled, req, resp>>
    /\ UNCHANGED <<notifier, cmp, lc, race>>

\* db.commit()
W_Commit ==
    /\ wpc = "commit"
    /\ pcs' = CommitPcs(sess)
    /\ configurations' = CommitConfigurations(sess)
    /\ events' = CommitEvents(sess)
    /\ Return(sess, "committed", batch)
    /\ UNCHANGED <<alerts, now, running, consumer, exitCause, batch, nPolled,
                   req, resp>>
    /\ UNCHANGED <<notifier, cmp, lc, race>>

\* a statement of the session raises (the database refuses a statement or
\* the commit, send_alert raises): except Exception
W_Raise ==
    /\ wpc \in {"baseline", "alert", "commit"}
    /\ Rollback(sess, batch)
    /\ UNCHANGED <<alerts, now, running, consumer, exitCause, batch, nPolled,
                   req, resp>>
    /\ UNCHANGED <<notifier, cmp, lc, race>>

-----------------------------------------------------------------------------
(* app.py: set_baseline (POST /api/pcs/{pc_id}/baseline).                  *)

\* the response; for an accepted baseline, with the row count of the UPDATE
\* and the number of snapshots stored when it was accepted
Respond(op, pc_id, code) ==
    resp' = [op |-> op, pc_id |-> pc_id, code |-> code,
             demoted |-> IF op = "set_baseline" /\ code = 200
                           THEN Cardinality(RowIds(pc_id, TRUE)) ELSE 0,
             snapshots |-> IF op = "set_baseline" /\ code = 200
                             THEN Len(configurations) ELSE 0]

\* the rows the UPDATE ... WHERE pc_id = ? AND is_baseline demotes
DemotedRowsNone(pc_id) == {}
DemotedRowsFirst(pc_id) ==
    {i \in RowIds(pc_id, TRUE) : \A j \in RowIds(pc_id, TRUE) : i <= j}
DemotedRows(pc_id) == RowIds(pc_id, TRUE)

\* status the handler gives the PC
AcceptedStatus == "normal"

\* the table after the handler's UPDATE and latest.is_baseline = True
PromoteConfigurations(pc_id, latest) ==
    [i \in 1..Len(configurations) |->
        IF i = latest THEN [configurations[i] EXCEPT !.is_baseline = TRUE]
        ELSE IF i \in DemotedRows(pc_id)
          THEN [configurations[i] EXCEPT !.is_baseline = FALSE]
        ELSE configurations[i]]

\* the queries for pc and latest; HTTPException(404) when either is missing
SetBaselineBegin(pc_id) ==
    /\ req = Idle
    /\ IF pc_id \notin DOMAIN pcs \/ LatestCandidates(pc_id) = {}
         THEN /\ Respond("set_baseline", pc_id, 404)
              /\ UNCHANGED req
         ELSE /\ \E latest \in LatestCandidates(pc_id) :
                   req' = [op |-> "set_baseline", pc_id |-> pc_id, latest |-> latest]
              /\ UNCHANGED resp
    /\ UNCHANGED <<db, alerts, now, running, consumer, wpc, exitCause, batch,
                   sess, outcome, nPolled>>
    /\ UNCHANGED <<notifier, cmp, lc, race>>

\* the UPDATE, latest.is_baseline = True, pc.status = 'normal', db.commit()
SetBaselineCommit ==
    /\ req.op = "set_baseline"
    /\ configurations' = PromoteConfigurations(req.pc_id, req.latest)
    /\ pcs' = [pcs EXCEPT ![req.pc_id].status = AcceptedStatus]
    /\ Respond("set_baseline", req.pc_id, 200)
    /\ req' = Idle
    /\ UNCHANGED <<events, alerts, now, running, consumer, wpc, exitCause,
                   batch, sess, outcome, nPolled>>
    /\ UNCHANGED <<notifier, cmp, lc, race>>

\* a handler's statement or commit raises: the session is closed without a
\* commit and the request is answered 500
HandlerRaises ==
    /\ req.op \in {"set_baseline", "offline"}
    /\ Respond(req.op, NoneV, 500)
    /\ req' = Idle
    /\ UNCHANGED <<db, alerts, now, running, consumer, wpc, exitCause, batch,
                   sess, outcome, nPolled>>
    /\ UNCHANGED <<notifier, cmp, lc, race>>

-----------------------------------------------------------------------------
(* app.py: update_offline_status, called first by get_pcs, get_pc and      *)
(* get_stats.                                                              *)

Threshold(t) == t - OfflineThresholdMinutes

\* the rows query(PC).filter(last_seen IS NOT NULL, last_seen < threshold,
\* status != 'offline') returns
OfflinePcs(threshold) ==
    {m \in DOMAIN pcs :
        /\ pcs[m].last_seen # NoTime
        /\ pcs[m].last_seen < threshold
        /\ pcs[m].status # "offline"}

\* the table after pc.status = 'offline' for the rows of the query
MarkOfflineAll(selected) ==
    [m \in DOMAIN pcs |-> [pcs[m] EXCEPT !.status = "offline"]]
MarkOffline(selected) ==
    [m \in DOMAIN pcs |->
        IF m \in selected THEN [pcs[m] EXCEPT !.status = "offline"] ELSE pcs[m]]

\* the query; without rows there is nothing to commit
OfflineCheckBegin ==
    /\ req = Idle
    /\ LET threshold == Threshold(now)
           offline_pcs == OfflinePcs(threshold)
       IN  IF offline_pcs = {}
             THEN /\ Respond("offline", NoneV, 200)
                  /\ UNCHANGED req
             ELSE /\ req' = [op |-> "offline", threshold |-> threshold,
                             offline_pcs |-> offline_pcs, view |-> pcs]
                  /\ UNCHANGED resp
    /\ UNCHANGED <<db, alerts, now, running, consumer, wpc, exitCause, batch,
                   sess, outcome, nPolled>>
    /\ UNCHANGED <<notifier, cmp, lc, race>>

\* for pc in offline_pcs: pc.status = 'offline'; db.commit()
OfflineCheckCommit ==
    /\ req.op = "offline"
    /\ pcs' = MarkOffline(req.offline_pcs)
    /\ Respond("offline", NoneV, 200)
    /\ req' = Idle
    /\ UNCHANGED <<configurations, events, alerts, now, running, consumer, wpc,
                   exitCause, batch, sess, outcome, nPolled>>
    /\ UNCHANGED <<notifier, cmp, lc, race>>

-----------------------------------------------------------------------------
(* lifespan's shutdown: consumer.stop().  No request is served afterwards. *)

Stop ==
    /\ req = Idle
    /\ running
    /\ running' = FALSE
    /\ consumer' = IF consumer = "none" THEN "none" ELSE "closed"
    /\ req' = [op |-> "shutdown"]
    /\ UNCHANGED <<db, alerts, now, wpc, exitCause, batch, sess, outcome,
                   nPolled, resp>>
    /\ UNCHANGED <<notifier, cmp, lc, race>>

\* time passes
Tick ==
    /\ now < MaxTicks * TickMinutes
    /\ now' = now + TickMinutes
    /\ UNCHANGED <<db, alerts, running, consumer, wpc, exitCause, batch, sess,
                   outcome, nPolled, req, resp>>
    /\ UNCHANGED <<notifier, cmp, lc, race>>

-----------------------------------------------------------------------------

Worker ==
    \/ W_CreateOk \/ W_CreateRaises \/ W_Check
    \/ W_PollEmpty \/ W_PollBatch \/ W_PollKafkaError \/ W_PollUndecodable
    \/ W_PollClosed \/ W_ReconnectOk \/ W_ReconnectRaises
    \/ W_Open \/ W_Baseline \/ W_Alert \/ W_Commit \/ W_Raise

Handlers ==
    \/ \E pc_id \in MIDs : SetBaselineBegin(pc_id)
    \/ SetBaselineCommit
    \/ OfflineCheckBegin
    \/ OfflineCheckCommit
    \/ HandlerRaises

Next == Worker \/ Handlers \/ Stop \/ Tick

Spec == Init /\ [][Next]_vars

-----------------------------------------------------------------------------
(* The application started on tables that already hold rows.  The schema   *)
(* (database.py) constrains neither the number of baseline rows of a PC    *)
(* nor the status of a PC that has rows: m1 is registered with up to       *)
(* MaxStored stored configurations, any of them marked baseline.  The      *)
(* transport has delivered MaxPolled - MaxLater messages before.           *)

MaxStored == 2
MaxLater == 1

StoredRows ==
    {create_db_configuration("m1", [timestamp |-> 0, hw |-> h], f) :
        h \in Hardware, f \in BOOLEAN}

InitTables ==
    /\ pcs \in {[m \in {"m1"} |-> [status |-> st, last_seen |-> NoTime]] :
                    st \in {"unknown", "changed"}}
    /\ configurations \in UNION {[1..n -> StoredRows] : n \in 0..MaxStored}
    /\ events = <<>>
    /\ alerts = <<>>
    /\ now = 0
    /\ running = TRUE
    /\ consumer = "none"
    /\ wpc = "run"
    /\ exitCause = ""
    /\ batch = <<>>
    /\ sess = NoSess
    /\ outcome = NoOutcome
    /\ nPolled = MaxPolled - MaxLater
    /\ req = Idle
    /\ resp = NoResp
    /\ notifier = NoChannels
    /\ cmp = NoCall
    /\ lc = NoLifecycle
    /\ race = NoRace

SpecTables == InitTables /\ [][Next]_vars

-----------------------------------------------------------------------------
(* The application started with any of the notification channels           *)
(* configured in its environment, on tables that hold m1 with a baseline.  *)

InitNotify ==
    /\ pcs = [m \in {"m1"} |-> [status |-> "normal", last_seen |-> 0]]
    /\ configurations = <<create_db_configuration("m1", [timestamp |-> 0, hw |-> HwA], TRUE)>>
    /\ events = <<>>
    /\ alerts = <<>>
    /\ now = 0
    /\ running = TRUE
    /\ consumer = "none"
    /\ wpc = "run"
    /\ exitCause = ""
    /\ batch = <<>>
    /\ sess = NoSess
    /\ outcome = NoOutcome
    /\ nPolled = MaxPolled - MaxLater
    /\ req = Idle
    /\ resp = NoResp
    /\ notifier \in [telegram : BOOLEAN, email : BOOLEAN]
    /\ cmp = NoCall
    /\ lc = NoLifecycle
    /\ race = NoRace

SpecNotify == InitNotify /\ [][Next]_vars

-----------------------------------------------------------------------------
(* config_comparator.py on its own: compare_configurations called on two   *)
(* stored configurations of one PC, and called again on the same two.      *)

MaxItems == 2        \* items in a list component of a compared configuration

RecA == [model |-> "i5", serial_number |-> "A1"]
RecB == [model |-> "i7", serial_number |-> "A1"]
RecANull == [model |-> "i5", serial_number |-> "A1", socket |-> NoneV]
RecNull == [socket |-> NoneV]
Records == {RecA, RecB, RecANull, RecNull}

RamR1Big == [serial_number |-> "R1", slot |-> "1", size |-> "16"]
RamR2Big == [serial_number |-> "R2", slot |-> "2", size |-> "16"]
RamSlot == [slot |-> "3", size |-> "8"]
RamBare == [size |-> "8"]
RamR1Null == [serial_number |-> "R1", slot |-> "1", size |-> NoneV]
\* a second module without serial number and slot, and one whose slot reads
\* like a positional key
RamBareBig == [size |-> "16"]
RamSlotNamed == [slot |-> "slot_1", size |-> "8"]
RamModules ==
    {RamR1, RamR1Big, RamR1Null, RamR2, RamR2Big, RamSlot, RamBare,
     RamBareBig, RamSlotNamed}

DiskS1 == [serial_number |-> "S1", model |-> "ssd"]
DiskS1New == [serial_number |-> "S1", model |-> "nvme"]
DiskS2 == [serial_number |-> "S2", model |-> "ssd"]
DiskS2New == [serial_number |-> "S2", model |-> "nvme"]
DiskBare == [model |-> "hdd"]
DiskBareNew == [model |-> "ssd"]
StorageDevices == {DiskS1, DiskS1New, DiskS2, DiskS2New, DiskBare, DiskBareNew}

NicA == [mac_address |-> "aa", name |-> "eth0"]
NicARenamed == [mac_address |-> "aa", name |-> "eth1"]
NicB == [mac_address |-> "bb", name |-> "eth0"]
NicBare == [name |-> "lo"]
NetworkAdapters == {NicA, NicARenamed, NicB, NicBare}

ListsOf(S) == UNION {[1..n -> S] : n \in 0..MaxItems}

\* what an agent can report: one kind of component varied, or all at once
ComparedHardware ==
    {[NoComponents EXCEPT ![name] = Some(r)] :
        name \in {"motherboard", "cpu", "gpu", "psu"}, r \in Records}
    \cup {[NoComponents EXCEPT !.ram_modules = l] : l \in ListsOf(RamModules)}
    \cup {[NoComponents EXCEPT !.storage_devices = l] : l \in ListsOf(StorageDevices)}
    \cup {[NoComponents EXCEPT !.network_adapters = l] : l \in ListsOf(NetworkAdapters)}
    \cup {[motherboard |-> Some(r), cpu |-> Some(r), ram_modules |-> m,
           storage_devices |-> d, gpu |-> Some(r),
           network_adapters |-> <<n>>, psu |-> Some(r)] :
           r \in {RecA, RecB},
           m \in {<<RamR1, RamR2>>, <<RamR1Big, RamSlot>>},
           d \in {<<DiskS1, DiskS2>>, <<DiskS1New, DiskBare>>},
           n \in {NicA, NicB}}

\* the rows _create_db_configuration stores for them
ComparedRows(is_baseline) ==
    {create_db_configuration("m1", [timestamp |-> 0, hw |-> h], is_baseline) :
        h \in ComparedHardware}

CommonKeys(bd, cd) == DictKeys(bd) \cap DictKeys(cd)

InitCompare ==
    /\ pcs = <<>>
    /\ configurations = <<>>
    /\ events = <<>>
    /\ alerts = <<>>
    /\ now = 0
    /\ running = FALSE
    /\ consumer = "none"
    /\ wpc = "exited"
    /\ exitCause = ""
    /\ batch = <<>>
    /\ sess = NoSess
    /\ outcome = NoOutcome
    /\ nPolled = 0
    /\ req = Idle
    /\ resp = NoResp
    /\ notifier = NoChannels
    /\ cmp \in {[pc |-> "args", baseline |-> b, current |-> c,
                  ram_order |-> <<>>, storage_order |-> <<>>,
                  first |-> <<>>, second |-> <<>>] :
                 b \in ComparedRows(TRUE), c \in ComparedRows(FALSE)}
    /\ lc = NoLifecycle
    /\ race = NoRace

NotCompared ==
    UNCHANGED <<pcs, configurations, events, alerts, now, running, consumer,
                wpc, exitCause, batch, sess, outcome, nPolled, req, resp,
                notifier, lc, race>>

\* events = compare_configurations(baseline, current); the sets of common
\* keys are iterated in an order the interpreter fixes for the process
Compare ==
    /\ cmp.pc = "args"
    /\ \E ro \in Orders(CommonKeys(ram_dict(cmp.baseline), ram_dict(cmp.current))),
          so \in Orders(CommonKeys(storage_dict(cmp.baseline), storage_dict(cmp.current))) :
         cmp' = [cmp EXCEPT !.pc = "done", !.ram_order = ro, !.storage_order = so,
                            !.first = compare_in_order(cmp.baseline, cmp.current, ro, so)]
    /\ NotCompared

\* the same call again in the same process: the same sets, built the same
\* way, are iterated in the same order
CompareAgain ==
    /\ cmp.pc = "done"
    /\ cmp' = [cmp EXCEPT !.pc = "again",
                          !.second = compare_in_order(cmp.baseline, cmp.current,
                                                      cmp.ram_order, cmp.storage_order)]
    /\ NotCompared

NextCompare == Compare \/ CompareAgain

SpecCompare == InitCompare /\ [][NextCompare]_vars

-----------------------------------------------------------------------------
(* Steps, as the tables and the threads' positions show them.              *)

\* a step of a request handler: the worker and the clock stand still
HandlerStep ==
    UNCHANGED <<alerts, now, running, consumer, wpc, exitCause, batch, sess,
                outcome, nPolled>>

\* _process_configuration returns in this step
ReturnStep ==
    /\ wpc \in {"msg", "baseline", "alert", "commit"}
    /\ sess' = NoSess
    /\ wpc' \in {"msg", "loop"}

\* ... after db.commit()
CommittedStep == ReturnStep /\ wpc = "commit" /\ outcome'.result = "committed"

\* ... after db.rollback()
DroppedStep == ReturnStep /\ outcome'.result = "dropped"

\* a step of the worker thread
WorkerStep == <<wpc, sess, batch, nPolled, exitCause, outcome, alerts>>' #
              <<wpc, sess, batch, nPolled, exitCause, outcome, alerts>>

\* the stored form of the snapshot the session ingests
Ingested(s, is_baseline) ==
    create_db_configuration(s.config.pc_id, s.config, is_baseline)

\* the event rows of the table are those of `before` followed by one row for
\* each event of the list evs, in order, for machine pc_id
EventsPersisted(before, after, pc_id, evs) ==
    /\ Len(after) = Len(before) + Len(evs)
    /\ SubSeq(after, 1, Len(before)) = before
    /\ \A i \in 1..Len(evs) :
         LET row == after[Len(before) + i]
         IN  /\ row.pc_id = pc_id
             /\ row.component_type = evs[i].component_type
             /\ row.event_type = evs[i].event_type
             /\ row.old_value = evs[i].old_value
             /\ row.new_value = evs[i].new_value

-----------------------------------------------------------------------------
\* C1: when the payload of a machine_id without a Machine record is
\* ingested (the session commits), the machine is created with status
\* normal, the snapshot is its one and only baseline (and its only
\* snapshot), no ChangeEvent is created and no alert has been sent for the
\* payload.
C1_FirstSnapshot ==
    [][(CommittedStep /\ sess.path = "new") =>
        LET m == sess.config.pc_id
            n == Len(configurations')
        IN  /\ m \notin DOMAIN pcs
            /\ m \in DOMAIN pcs'
            /\ pcs'[m].status = "normal"
            /\ RowIdsIn(configurations', m, TRUE) = {n}
            /\ RowIdsIn(configurations', m, FALSE) = {}
            /\ configurations'[n] = Ingested(sess, TRUE)
            /\ events' = events
            /\ \A i \in 1..Len(events') : events'[i].pc_id # m
            /\ \A i \in 1..Len(alerts') : alerts'[i].txn # sess.txn]_vars

C1_Witness ==
    /\ outcome.result = "committed"
    /\ outcome.path = "new"
    /\ pcs[outcome.pc_id].status = "normal"
    /\ Cardinality(Baselines(outcome.pc_id)) = 1
    /\ EventsOf(outcome.pc_id) = {}
    /\ alerts = <<>>

-----------------------------------------------------------------------------
C2_WitnessChanged ==
    /\ outcome.result = "committed"
    /\ outcome.path = "diff"
    /\ outcome.n_events > 0
    /\ pcs[outcome.pc_id].status = "changed"
    /\ Cardinality(EventsOf(outcome.pc_id)) >= outcome.n_events

C2_WitnessNormal ==
    /\ outcome.result = "committed"
    /\ outcome.path = "diff"
    /\ outcome.n_events = 0
    /\ Val(outcome.pc).status = "changed"
    /\ pcs[outcome.pc_id].status = "normal"

C4_PayloadNeverStopsWorker ==
    wpc = "exited" => exitCause # "payload"

\* C5: an alert is sent for an event only after the transaction that
\* persists the event has committed: every alert sent is the alert of a
\* persisted ChangeEvent.
C5_AlertAfterCommit ==
    \A i \in 1..Len(alerts) :
        \E j \in 1..Len(events) :
            /\ events[j].txn = alerts[i].txn
            /\ events[j].idx = alerts[i].idx

\* C6: in every reachable state, whatever the interleaving of the worker's
\* sessions with accept-as-baseline requests, each machine has at most one
\* snapshot marked baseline.
C6_AtMostOneBaseline ==
    \A m \in MIDs : Cardinality(Baselines(m)) <= 1

\* an accepted baseline while a session of the worker for the same machine
\* still holds the baseline it has read
C6_Witness ==
    /\ resp.op = "set_baseline" /\ resp.code = 200
    /\ sess # NoSess
    /\ sess.path = "diff"
    /\ sess.config.pc_id = resp.pc_id
    /\ sess.baseline \notin Baselines(resp.pc_id)
    /\ Cardinality(Baselines(resp.pc_id)) = 1

-----------------------------------------------------------------------------
\* the step in which the handler of a set_baseline request for machine m
\* runs its queries
SetBaselineQueryStep(m) ==
    /\ HandlerStep
    /\ req = Idle
    /\ \/ req'.op = "set_baseline" /\ req'.pc_id = m
       \/ req' = Idle /\ resp'.op = "set_baseline" /\ resp'.pc_id = m

\* the step in which an accepted set_baseline request commits
SetBaselineDoneStep ==
    /\ HandlerStep
    /\ req.op = "set_baseline"
    /\ req' = Idle
    /\ resp'.code = 200

\* C8: for a machine without a non-baseline snapshot the accept-as-baseline
\* request fails (404) and leaves the snapshots, their baseline flags and
\* the status as they are.
C8_NothingToAccept ==
    [][\A m \in MIDs :
        (SetBaselineQueryStep(m) /\ m \in DOMAIN pcs /\ RowIds(m, FALSE) = {}) =>
            /\ req' = Idle
            /\ resp'.code = 404
            /\ UNCHANGED db]_vars

C8_Witness ==
    /\ resp.op = "set_baseline" /\ resp.code = 404
    /\ resp.pc_id \in DOMAIN pcs
    /\ RowIds(resp.pc_id, FALSE) = {}
    /\ Cardinality(Baselines(resp.pc_id)) = 1
    /\ pcs[resp.pc_id].status = "normal"

-----------------------------------------------------------------------------
\* last_seen is set and older than the threshold
Older(last_seen, threshold) == last_seen # NoTime /\ last_seen < threshold

\* the offline check ends without a row to update
OfflineNothingStep ==
    /\ HandlerStep
    /\ req = Idle /\ req' = Idle
    /\ resp'.op = "offline" /\ resp'.code = 200

\* the offline check commits
OfflineDoneStep ==
    /\ HandlerStep
    /\ req.op = "offline"
    /\ req' = Idle
    /\ resp'.code = 200

\* C9: the offline check takes the threshold 10 minutes before the time of
\* its query; when it has ended, every machine whose last_seen it found
\* older than the threshold has status offline, and a machine whose
\* last_seen it found within the threshold (or unset) is left as it is.
C9_OfflineCheck ==
    [][/\ OfflineNothingStep =>
            \A m \in DOMAIN pcs :
                /\ pcs'[m] = pcs[m]
                /\ Older(pcs[m].last_seen, now - OfflineThresholdMinutes)
                     => pcs'[m].status = "offline"
       /\ (HandlerStep /\ req = Idle /\ req'.op = "offline") =>
            /\ req'.threshold = now - OfflineThresholdMinutes
            /\ req'.view = pcs
       /\ OfflineDoneStep =>
            /\ DOMAIN pcs' = DOMAIN pcs
            /\ \A m \in DOMAIN pcs :
                 IF m \in DOMAIN req.view
                    /\ Older(req.view[m].last_seen, req.threshold)
                   THEN /\ pcs'[m].status = "offline"
                        /\ pcs'[m].last_seen = pcs[m].last_seen
                   ELSE pcs'[m] = pcs[m]]_vars

\* after a check, one machine is offline and another, not found older than
\* the threshold, is not
C9_Witness ==
    /\ resp.op = "offline" /\ resp.code = 200
    /\ \E m \in DOMAIN pcs :
         /\ Older(pcs[m].last_seen, now - OfflineThresholdMinutes)
         /\ pcs[m].status = "offline"
    /\ \E m \in DOMAIN pcs :
         /\ ~Older(pcs[m].last_seen, now - OfflineThresholdMinutes)
         /\ pcs[m].status # "offline"

-----------------------------------------------------------------------------
(* Properties of compare_configurations, on the results of SpecCompare.    *)

Compared == cmp.pc \in {"done", "again"}

EventsOfType(evs, ctype) ==
    SelectSeq(evs, LAMBDA e : e.component_type = ctype)
EventsOfKind(evs, ctype, etype) ==
    SelectSeq(evs, LAMBDA e : e.component_type = ctype /\ e.event_type = etype)

\* C11: for motherboard, cpu, gpu and psu a comparison gives at most one
\* event: none when the component is absent on both sides or present on both
\* with equal normalized records, one removed event with the baseline record
\* when only the baseline has it, one added event with the current record
\* when only the current has it, one replaced event with both records when
\* both have it and the normalized records differ.
C11_SingleComponent ==
    Compared =>
        \A name \in {"motherboard", "cpu", "gpu", "psu"} :
            LET b == cmp.baseline[name]
                c == cmp.current[name]
                evs == EventsOfType(cmp.first, name)
            IN  /\ Len(evs) <= 1
                /\ evs = IF b = None /\ c = None THEN <<>>
                         ELSE IF c = None THEN <<Event(name, "removed", b, None)>>
                         ELSE IF b = None THEN <<Event(name, "added", None, c)>>
                         ELSE IF normalize(Val(b)) = normalize(Val(c)) THEN <<>>
                         ELSE <<Event(name, "replaced", b, c)>>

\* the cpu changed from i5 to i7: one replaced event with both records
C11_Witness ==
    /\ cmp.pc = "done"
    /\ cmp.baseline.cpu = Some(RecA) /\ cmp.current.cpu = Some(RecB)
    /\ cmp.first = <<Event("cpu", "replaced", Some(RecA), Some(RecB))>>


\* the keys whose records differ after normalization
ChangedKeys(bd, cd) ==
    {k \in CommonKeys(bd, cd) :
        normalize(DictGet(bd, k)) # normalize(DictGet(cd, k))}

\* one removed event per key only in bd, one added event per key only in cd,
\* one replaced event per changed common key, and no other event
OneEventPerKey(evs, ctype, bd, cd) ==
    LET removed == EventsOfKind(evs, ctype, "removed")
        added == EventsOfKind(evs, ctype, "added")
        replaced == EventsOfKind(evs, ctype, "replaced")
    IN  /\ Len(removed) = Cardinality(DictKeys(bd) \ DictKeys(cd))
        /\ \A k \in DictKeys(bd) \ DictKeys(cd) :
             \E i \in 1..Len(removed) :
                removed[i] = Event(ctype, "removed", Some(DictGet(bd, k)), None)
        /\ Len(added) = Cardinality(DictKeys(cd) \ DictKeys(bd))
        /\ \A k \in DictKeys(cd) \ DictKeys(bd) :
             \E i \in 1..Len(added) :
                added[i] = Event(ctype, "added", None, Some(DictGet(cd, k)))
        /\ Len(replaced) = Cardinality(ChangedKeys(bd, cd))
        /\ \A k \in ChangedKeys(bd, cd) :
             \E i \in 1..Len(replaced) :
                replaced[i] = Event(ctype, "replaced",
                                    Some(DictGet(bd, k)), Some(DictGet(cd, k)))
        /\ Len(EventsOfType(evs, ctype)) = Len(removed) + Len(added) + Len(replaced)

\* an item with a serial number is keyed by it; without one a RAM module is
\* keyed by its slot; otherwise the key is the positional one
KeyedAsStated(config, name, d, use_slot, prefix) ==
    LET l == ListOf(config, name)
    IN  \A i \in 1..Len(l) :
            LET serial == Get(l[i], "serial_number")
                slot == Get(l[i], "slot")
            IN  IF ~Falsy(serial) THEN serial \in DictKeys(d)
                ELSE IF use_slot /\ ~Falsy(slot) THEN slot \in DictKeys(d)
                ELSE \E n \in 0..(Len(l) - 1) : (prefix \o ToString(n)) \in DictKeys(d)

\* C12: for RAM and storage, keyed by serial number, else (RAM) slot, else
\* position: each key only in the baseline gives exactly one removed event,
\* each key only in the current exactly one added event, each key in both
\* with unequal normalized records exactly one replaced event, and a key in
\* both with equal normalized records no event.
C12_KeyedLists ==
    Compared =>
        /\ OneEventPerKey(cmp.first, "ram",
                          ram_dict(cmp.baseline), ram_dict(cmp.current))
        /\ OneEventPerKey(cmp.first, "storage",
                          storage_dict(cmp.baseline), storage_dict(cmp.current))
        /\ KeyedAsStated(cmp.baseline, "ram_modules", ram_dict(cmp.baseline), TRUE, "slot_")
        /\ KeyedAsStated(cmp.current, "ram_modules", ram_dict(cmp.current), TRUE, "slot_")
        /\ KeyedAsStated(cmp.baseline, "storage_devices", storage_dict(cmp.baseline), FALSE, "device_")
        /\ KeyedAsStated(cmp.current, "storage_devices", storage_dict(cmp.current), FALSE, "device_")

\* a module R2 added beside an unchanged R1: one added event for R2
C12_Witness ==
    /\ cmp.pc = "done"
    /\ cmp.baseline.ram_modules = Some(<<RamR1>>)
    /\ cmp.current.ram_modules = Some(<<RamR1, RamR2>>)
    /\ cmp.first = <<Event("ram", "added", None, Some(RamR2))>>


\* C13: no replaced event has component_type network; an adapter whose MAC
\* is only in the baseline gives a removed event, one whose MAC is only in
\* the current an added event, and an adapter whose MAC is on both sides
\* gives no event, whatever its other attributes.
C13_NetworkNeverReplaced ==
    Compared =>
        LET bd == network_dict(cmp.baseline)
            cd == network_dict(cmp.current)
            evs == EventsOfType(cmp.first, "network")
            removed == EventsOfKind(cmp.first, "network", "removed")
            added == EventsOfKind(cmp.first, "network", "added")
        IN  /\ \A i \in 1..Len(evs) : evs[i].event_type \in {"removed", "added"}
            /\ Len(evs) = Len(removed) + Len(added)
            /\ Len(removed) = Cardinality(DictKeys(bd) \ DictKeys(cd))
            /\ Len(added) = Cardinality(DictKeys(cd) \ DictKeys(bd))
            /\ \A i \in 1..Len(removed) :
                 Get(Val(removed[i].old_value), "mac_address") \in DictKeys(bd) \ DictKeys(cd)
            /\ \A i \in 1..Len(added) :
                 Get(Val(added[i].new_value), "mac_address") \in DictKeys(cd) \ DictKeys(bd)

\* the adapter aa renamed from eth0 to eth1: no event
C13_Witness ==
    /\ cmp.pc = "done"
    /\ cmp.baseline.network_adapters = Some(<<NicA>>)
    /\ cmp.current.network_adapters = Some(<<NicARenamed>>)
    /\ cmp.first = <<>>


TypeRank(ctype) ==
    CASE ctype = "motherboard" -> 1
      [] ctype = "cpu" -> 2
      [] ctype = "ram" -> 3
      [] ctype = "storage" -> 4
      [] ctype = "gpu" -> 5
      [] ctype = "network" -> 6
      [] ctype = "psu" -> 7

KindRank(etype) ==
    CASE etype = "removed" -> 1
      [] etype = "added" -> 2
      [] etype = "replaced" -> 3

\* C14: the returned events are ordered by component type, in the order
\* motherboard, cpu, ram, storage, gpu, network, psu, and the events of one
\* multi-instance component are ordered removed, then added, then replaced.
C14_EventOrder ==
    Compared =>
        \A i, j \in 1..Len(cmp.first) :
            i < j =>
                /\ TypeRank(cmp.first[i].component_type)
                     <= TypeRank(cmp.first[j].component_type)
                /\ (/\ cmp.first[i].component_type = cmp.first[j].component_type
                    /\ cmp.first[i].component_type \in {"ram", "storage", "network"})
                   => KindRank(cmp.first[i].event_type)
                        <= KindRank(cmp.first[j].event_type)

\* every component changed: twelve events, all seven types and the three
\* groups of ram and of storage, in the stated order
C14_Witness ==
    /\ cmp.pc = "done"
    /\ [i \in 1..Len(cmp.first) |->
          <<cmp.first[i].component_type, cmp.first[i].event_type>>]
       = << <<"motherboard", "replaced">>, <<"cpu", "replaced">>,
            <<"ram", "removed">>, <<"ram", "added">>, <<"ram", "replaced">>,
            <<"storage", "removed">>, <<"storage", "added">>, <<"storage", "replaced">>,
            <<"gpu", "replaced">>,
            <<"network", "removed">>, <<"network", "added">>,
            <<"psu", "replaced">> >>


\* the keys of `keys` in the insertion order of the dict d
InsertionOrder(d, keys) ==
    SelectSeq([i \in 1..Len(d) |-> d[i][1]], LAMBDA k : k \in keys)

\* the replaced events of one component follow the insertion order of the
\* common keys in the baseline dict, or in the current dict
ReplacedInInsertionOrder(evs, ctype, bd, cd) ==
    LET byBaseline == InsertionOrder(bd, CommonKeys(bd, cd))
        byCurrent == InsertionOrder(cd, CommonKeys(bd, cd))
    IN  EventsOfKind(evs, ctype, "replaced")
          \in {Replaced(bd, cd, byBaseline, Len(byBaseline), ctype),
               Replaced(bd, cd, byCurrent, Len(byCurrent), ctype)}

\* C15: two evaluations of compare on the same pair return the same event
\* sequence, and each group of events, the replaced group of ram and of
\* storage included, follows the insertion order of the key mapping.
C15_Deterministic ==
    cmp.pc = "again" =>
        /\ cmp.second = cmp.first
        /\ ReplacedInInsertionOrder(cmp.first, "ram",
                                    ram_dict(cmp.baseline), ram_dict(cmp.current))
        /\ ReplacedInInsertionOrder(cmp.first, "storage",
                                    storage_dict(cmp.baseline), storage_dict(cmp.current))


\* the two compared rows hold the same snapshot
SameSnapshot == [cmp.baseline EXCEPT !.is_baseline = FALSE] = cmp.current

\* C16: comparing a snapshot with itself returns no event, also when its
\* lists hold items without a key, items that share a key, or adapters
\* without a MAC.
C16_SelfDiffEmpty == (Compared /\ SameSnapshot) => cmp.first = <<>>

\* a snapshot with two modules of the same serial number, against itself
C16_Witness ==
    /\ cmp.pc = "done"
    /\ SameSnapshot
    /\ cmp.current.ram_modules = Some(<<RamR1, RamR1Big>>)
    /\ cmp.first = <<>>

\* a single component is absent on both sides or equal after normalization
NormEqualSingle(b, c) ==
    \/ b = None /\ c = None
    \/ b # None /\ c # None /\ normalize(Val(b)) = normalize(Val(c))

\* two lists have the same length and items equal after normalization
NormEqualList(b, c) ==
    /\ Len(b) = Len(c)
    /\ \A i \in 1..Len(b) : normalize(b[i]) = normalize(c[i])

NormEqualSnapshots ==
    /\ \A name \in {"motherboard", "cpu", "gpu", "psu"} :
         NormEqualSingle(cmp.baseline[name], cmp.current[name])
    /\ \A name \in {"ram_modules", "storage_devices", "network_adapters"} :
         NormEqualList(ListOf(cmp.baseline, name), ListOf(cmp.current, name))

\* C17: when every component field of the two snapshots is pairwise equal
\* after normalization (null-valued attributes dropped, then same keys and
\* same values), compare returns no event.
C17_NormEqualEmpty == (Compared /\ NormEqualSnapshots) => cmp.first = <<>>

\* a module reported with size null against the same module without size
C17_Witness ==
    /\ cmp.pc = "done"
    /\ cmp.baseline.ram_modules = Some(<<RamR1Null>>)
    /\ cmp.current.ram_modules = Some(<<RamR1>>)
    /\ NormEqualSnapshots
    /\ cmp.first = <<>>


-----------------------------------------------------------------------------
\* C18: the ingestion of a payload that names the machine and omits every
\* component, for a registered machine whose status is normal, creates no
\* ChangeEvent and leaves the status normal.
C18_NoComponentsNoEvents ==
    [][(/\ CommittedStep
        /\ sess.path # "new"
        /\ sess.config.hw = NoComponents
        /\ Val(sess.pc).status = "normal") =>
           /\ events' = events
           /\ pcs'[sess.config.pc_id].status = "normal"]_vars

\* C19: the ingestion of a payload identical to one already ingested for
\* the machine (same machine, same capture time, same components) creates
\* no ChangeEvent and sends no alert.
C19_DuplicateNoOp ==
    [][(/\ CommittedStep
        /\ \E i \in Snapshots(sess.config.pc_id) :
              [configurations[i] EXCEPT !.is_baseline = FALSE] = Ingested(sess, FALSE)) =>
           /\ events' = events
           /\ \A i \in 1..Len(alerts') : alerts'[i].txn # sess.txn]_vars


-----------------------------------------------------------------------------
\* send_alert has been called for one more event
AlertStep == Len(alerts') = Len(alerts) + 1

\* C20: for each alert every configured channel is attempted exactly once,
\* whatever became of the other channel, and a channel without
\* configuration is skipped; a failed attempt does not end the session: the
\* transaction stays open, nothing is rolled back and the call of
\* _process_configuration goes on.
C20_ChannelsIndependent ==
    [][AlertStep =>
        LET a == alerts'[Len(alerts')]
        IN  /\ a.telegram.attempts = (IF notifier.telegram THEN 1 ELSE 0)
            /\ a.email.attempts = (IF notifier.email THEN 1 ELSE 0)
            /\ a.telegram.result = "skipped" <=> ~notifier.telegram
            /\ a.email.result = "skipped" <=> ~notifier.email
            /\ sess'.txn = sess.txn
            /\ wpc' \in {"alert", "commit"}
            /\ outcome' = outcome
            /\ UNCHANGED db]_vars

\* Telegram failed, the e-mail of the same alert was sent, and the
\* transaction of the event committed
C20_Witness ==
    \E i \in 1..Len(alerts) :
        /\ alerts[i].telegram = Failed
        /\ alerts[i].email = Sent
        /\ \E j \in 1..Len(events) :
             events[j].txn = alerts[i].txn /\ events[j].idx = alerts[i].idx


-----------------------------------------------------------------------------
\* send_alert returned for the event row
Notified(row) ==
    \E i \in 1..Len(alerts) :
        alerts[i].txn = row.txn /\ alerts[i].idx = row.idx

\* C21: a persisted ChangeEvent for which send_alert was invoked and
\* returned has its notified flag set, whatever became of the channels; an
\* event for which it was never invoked has notified = false.
C21_NotifiedFlag ==
    \A j \in 1..Len(events) : events[j].notified <=> Notified(events[j])

\* C23: once stop() has returned no payload is in flight (its session has
\* committed or rolled back) and the worker starts no further payload.
C23_StopCompletesPayload ==
    [][req'.op = "shutdown" =>
        /\ sess' = NoSess
        /\ Len(batch') >= Len(batch)]_vars

\* C24: after a transport failure raised while polling the worker reconnects
\* and polls again; no transport failure, the one raised while reconnecting
\* included, ends the worker.
C24_TransportNeverStopsWorker ==
    wpc = "exited" => exitCause # "transport"

\* C27: no step deletes a machine or a change event, or changes a field of
\* a stored change event other than its notified flag.
C27_OnlyGrow ==
    [][/\ DOMAIN pcs \subseteq DOMAIN pcs'
       /\ Len(events') >= Len(events)
       /\ \A i \in 1..Len(events) :
            [events'[i] EXCEPT !.notified = FALSE]
              = [events[i] EXCEPT !.notified = FALSE]]_vars

\* events are stored, then a later ingestion, an accepted baseline and an
\* offline check have run on two machines
C27_Witness ==
    /\ Cardinality(DOMAIN pcs) = 2
    /\ Len(events) >= 2
    /\ resp.op = "offline" /\ resp.code = 200
    /\ \E m \in DOMAIN pcs : pcs[m].status = "offline"

\* C28: each machine has at most two stored snapshots, the baseline and the
\* most recent one.
C28_AtMostTwoSnapshots ==
    \A m \in DOMAIN pcs : Cardinality(Snapshots(m)) <= 2

\* the adapters of a list that have a MAC address
WithMac(l) == SelectSeq(l, LAMBDA a : Get(a, "mac_address") # NoneV)

\* the two rows differ at most in their adapters without a MAC address
DifferOnlyInMacLess ==
    /\ \A name \in {"motherboard", "cpu", "gpu", "psu", "ram_modules", "storage_devices"} :
         cmp.baseline[name] = cmp.current[name]
    /\ WithMac(ListOf(cmp.baseline, "network_adapters"))
         = WithMac(ListOf(cmp.current, "network_adapters"))

\* C29: when baseline and current differ only in the presence or number of
\* adapters without a MAC address, compare returns no added and no removed
\* network event.
C29_MacLessInvisible ==
    (Compared /\ DifferOnlyInMacLess) =>
        /\ EventsOfKind(cmp.first, "network", "added") = <<>>
        /\ EventsOfKind(cmp.first, "network", "removed") = <<>>

\* C30: every persisted ChangeEvent has exactly one send_alert call, for
\* that event, and the calls of one ingestion were made in the order of the
\* events compare returned.
C30_NotifiedOncePerEvent ==
    /\ \A j \in 1..Len(events) :
         /\ Cardinality({i \in 1..Len(alerts) :
                            alerts[i].txn = events[j].txn
                            /\ alerts[i].idx = events[j].idx}) = 1
         /\ \A i \in 1..Len(alerts) :
              (alerts[i].txn = events[j].txn /\ alerts[i].idx = events[j].idx) =>
                  /\ alerts[i].event.component_type = events[j].component_type
                  /\ alerts[i].event.event_type = events[j].event_type
                  /\ alerts[i].pc_id = events[j].pc_id
    /\ \A i, k \in 1..Len(alerts) :
         (i < k /\ alerts[i].txn = alerts[k].txn) => alerts[i].idx < alerts[k].idx

\* a committed ingestion with two events, alerted in order
C30_Witness ==
    /\ Len(events) = 2
    /\ events[1].txn = events[2].txn
    /\ \E i \in 1..Len(alerts) :
         /\ i + 1 <= Len(alerts)
         /\ alerts[i].txn = events[1].txn /\ alerts[i].idx = 1
         /\ alerts[i + 1].txn = events[1].txn /\ alerts[i + 1].idx = 2

\* C25: every notification send returns within a bounded per-call timeout,
\* on the webhook channel and on the SMTP channel, so the worker is never
\* held in send_alert by a channel that does not respond and goes on to the
\* payloads that follow.
C25_SendsBounded == wpc # "blocked"

\* C25, the webhook half alone: with only Telegram configured the worker is
\* never held in send_alert.
C25_TelegramBounded ==
    (notifier.telegram /\ ~notifier.email) => wpc # "blocked"

-----------------------------------------------------------------------------
(* kafka_consumer.py: start(), stop() and the threads start() spawns, from *)
(* the state __init__ leaves (running = False, consumer = None).  Callers  *)
(* are threads of the process; a thread is at "run" before the consumer    *)
(* test of _run, at "loop" on the while test, inside the loop body at      *)
(* "poll", "process" or "reconnect", and "exited" after _run.              *)

MaxCalls == 3        \* calls of start() and stop() in one behaviour

Callers == {"c1", "c2"}

\* every call of start() spawns at most one thread
ThreadIds == 1..MaxCalls
Threads == 1..Len(lc.threads)

\* the other variables are those of the single worker of Spec: not used here
LifecycleOnly ==
    UNCHANGED <<db, alerts, now, wpc, exitCause, batch, sess, outcome,
                nPolled, req, resp, notifier, cmp, race>>

InitLifecycle ==
    /\ pcs = <<>>
    /\ configurations = <<>>
    /\ events = <<>>
    /\ alerts = <<>>
    /\ now = 0
    /\ running = FALSE
    /\ consumer = "none"
    /\ wpc = "none"
    /\ exitCause = ""
    /\ batch = <<>>
    /\ sess = NoSess
    /\ outcome = NoOutcome
    /\ nPolled = 0
    /\ req = Idle
    /\ resp = NoResp
    /\ notifier = NoChannels
    /\ cmp = NoCall
    /\ lc = [calls |-> 0, stops |-> 0, overlap |-> FALSE,
             caller |-> [c \in Callers |-> "idle"], threads |-> <<>>]
    /\ race = NoRace

\* a call begins while another caller is between the test and the
\* assignment of start()
Overlaps(c) == \E o \in Callers \ {c} : lc.caller[o] = "set"

\* start(): if self.running: return
StartCheck(c) ==
    /\ lc.caller[c] = "idle"
    /\ lc.calls < MaxCalls
    /\ lc' = [lc EXCEPT !.calls = @ + 1,
                        !.overlap = @ \/ Overlaps(c),
                        !.caller[c] = IF running THEN "idle" ELSE "set"]
    /\ UNCHANGED <<running, consumer>>
    /\ LifecycleOnly

\* start(): self.running = True; threading.Thread(target=self._run).start()
StartSpawn(c) ==
    /\ lc.caller[c] = "set"
    /\ running' = TRUE
    /\ lc' = [lc EXCEPT !.caller[c] = "idle",
                        !.threads = Append(@, "run")]
    /\ UNCHANGED consumer
    /\ LifecycleOnly

\* stop(): self.running = False; if self.consumer: self.consumer.close()
StopCall(c) ==
    /\ lc.caller[c] = "idle"
    /\ lc.calls < MaxCalls
    /\ running' = FALSE
    /\ consumer' = IF consumer = "none" THEN "none" ELSE "closed"
    /\ lc' = [lc EXCEPT !.calls = @ + 1, !.stops = @ + 1,
                        !.overlap = @ \/ Overlaps(c)]
    /\ LifecycleOnly

\* the finally clause of _run: if self.consumer: self.consumer.close()
RunFinally == IF consumer = "none" THEN "none" ELSE "closed"

\* _run: if not self.consumer: self._create_consumer(), which may raise
RunCreate(t) ==
    /\ t \in Threads
    /\ lc.threads[t] = "run"
    /\ \/ /\ consumer' = IF consumer = "none" THEN "open" ELSE consumer
          /\ lc' = [lc EXCEPT !.threads[t] = "loop"]
       \/ /\ consumer = "none"
          /\ lc' = [lc EXCEPT !.threads[t] = "exited"]
          /\ UNCHANGED consumer
    /\ UNCHANGED running
    /\ LifecycleOnly

\* while self.running
RunCheck(t) ==
    /\ t \in Threads
    /\ lc.threads[t] = "loop"
    /\ IF running
         THEN /\ lc' = [lc EXCEPT !.threads[t] = "poll"]
              /\ UNCHANGED consumer
         ELSE /\ lc' = [lc EXCEPT !.threads[t] = "exited"]
              /\ consumer' = RunFinally
    /\ UNCHANGED running
    /\ LifecycleOnly

\* self.consumer.poll(timeout_ms=1000): an empty pack, messages, a
\* KafkaError, or, on a closed consumer, an error that ends _run
RunPoll(t) ==
    /\ t \in Threads
    /\ lc.threads[t] = "poll"
    /\ IF consumer = "open"
         THEN /\ \E to \in {"loop", "process", "reconnect"} :
                   lc' = [lc EXCEPT !.threads[t] = to]
              /\ UNCHANGED consumer
         ELSE /\ lc' = [lc EXCEPT !.threads[t] = "exited"]
              /\ consumer' = RunFinally
    /\ UNCHANGED running
    /\ LifecycleOnly

\* the for loops over the message pack: _process_configuration per message
RunProcess(t) ==
    /\ t \in Threads
    /\ lc.threads[t] = "process"
    /\ lc' = [lc EXCEPT !.threads[t] = "loop"]
    /\ UNCHANGED <<running, consumer>>
    /\ LifecycleOnly

\* except KafkaError: close, self.consumer = None, self._create_consumer()
RunReconnect(t) ==
    /\ t \in Threads
    /\ lc.threads[t] = "reconnect"
    /\ \/ /\ consumer' = "open"
          /\ lc' = [lc EXCEPT !.threads[t] = "loop"]
       \/ /\ consumer' = "none"
          /\ lc' = [lc EXCEPT !.threads[t] = "exited"]
    /\ UNCHANGED running
    /\ LifecycleOnly

NextLifecycle ==
    \/ \E c \in Callers : StartCheck(c)
    \/ \E c \in Callers : StartSpawn(c)
    \/ \E c \in Callers : StopCall(c)
    \/ \E t \in ThreadIds : RunCreate(t)
    \/ \E t \in ThreadIds : RunCheck(t)
    \/ \E t \in ThreadIds : RunPoll(t)
    \/ \E t \in ThreadIds : RunProcess(t)
    \/ \E t \in ThreadIds : RunReconnect(t)

SpecLifecycle == InitLifecycle /\ [][NextLifecycle]_vars

\* the threads inside the body of the poll loop
InLoop == {t \in Threads : lc.threads[t] \in {"poll", "process", "reconnect"}}

\* C22: whatever the sequence and interleaving of start() and stop()
\* calls, at most one worker thread is executing the poll loop at any time.
C22_AtMostOneWorker == Cardinality(InLoop) <= 1

\* C22, for calls made one after the other (no call begins while a start()
\* is between its test and its assignment): at most one thread is in the
\* poll loop.
C22_OneAfterTheOther == ~lc.overlap => Cardinality(InLoop) <= 1

\* C22, for start() called again without a stop() and without overlapping
\* calls: the second call spawns nothing.
C22_StartTwiceInARow ==
    (~lc.overlap /\ lc.stops = 0) => Len(lc.threads) <= 1

\* start() was called twice in a row and one thread is polling
C22_WitnessTwice ==
    /\ ~lc.overlap /\ lc.stops = 0 /\ lc.calls >= 2
    /\ Cardinality(InLoop) = 1

-----------------------------------------------------------------------------
(* kafka_consumer.py, database.py: two independent workers, each in its    *)
(* own session on the one database, each processing one payload.  A worker *)
(* is at "query" before the query for the PC, at "flush" before            *)
(* db.flush() of the new PC, at "commit" with its INSERT executed and its  *)
(* write transaction open, at "registered" on the else branch, and "done"  *)
(* after db.close().  A row carries the worker that wrote it.  No channel  *)
(* is configured, so send_alert sends nothing.                             *)

RaceWorkers == {1, 2}

\* the payloads from_dict accepts
RacePayloads == {p \in Payloads(0) : ~from_dict_raises(p)}

InitRace ==
    /\ pcs = <<>>
    /\ configurations = <<>>
    /\ events = <<>>
    /\ alerts = <<>>
    /\ now = 0
    /\ running = TRUE
    /\ consumer = "open"
    /\ wpc = "none"
    /\ exitCause = ""
    /\ batch = <<>>
    /\ sess = NoSess
    /\ outcome = NoOutcome
    /\ nPolled = 0
    /\ req = Idle
    /\ resp = NoResp
    /\ notifier = NoChannels
    /\ cmp = NoCall
    /\ lc = NoLifecycle
    /\ \E cfg \in [RaceWorkers -> RacePayloads] :
         race = [pcs |-> <<>>, configurations |-> <<>>, events |-> <<>>,
                 w |-> [w \in RaceWorkers |->
                          [pc |-> "query", config |-> cfg[w], saw |-> FALSE,
                           result |-> "none", cause |-> ""]]]

RaceOnly ==
    UNCHANGED <<db, alerts, now, running, consumer, wpc, exitCause, batch,
                sess, outcome, nPolled, req, resp, notifier, cmp, lc>>

\* pc_id = Column(String(255), unique=True, ...): the unique index holds a
\* row with this pc_id
unique_pc_id_off(rows, pc_id) == FALSE
unique_pc_id(rows, pc_id) == \E i \in 1..Len(rows) : rows[i].pc_id = pc_id

\* another session has executed a write and not yet ended its transaction:
\* the engine admits one writer at a time
WriterActive(w) == \E o \in RaceWorkers \ {w} : race.w[o].pc = "commit"

\* except Exception: db.rollback(); finally: db.close()
RaceDropped(w, cause) ==
    race' = [race EXCEPT !.w[w].pc = "done", !.w[w].result = "dropped",
                         !.w[w].cause = cause]

\* pc = db.query(PC).filter_by(pc_id=config.pc_id).first()
RaceQuery(w) ==
    /\ race.w[w].pc = "query"
    /\ LET seen == \E i \in 1..Len(race.pcs) :
                       race.pcs[i].pc_id = race.w[w].config.pc_id
       IN  race' = [race EXCEPT !.w[w].saw = seen,
                                !.w[w].pc = IF seen THEN "registered"
                                            ELSE "flush"]
    /\ RaceOnly

\* db.add(pc); db.flush(): the INSERT waits while another writer is active
\* and raises when the wait times out; executed, it raises on the unique
\* index
RaceFlush(w) ==
    /\ race.w[w].pc = "flush"
    /\ IF WriterActive(w)
         THEN RaceDropped(w, "locked")
       ELSE IF unique_pc_id(race.pcs, race.w[w].config.pc_id)
         THEN RaceDropped(w, "unique")
       ELSE race' = [race EXCEPT !.w[w].pc = "commit"]
    /\ RaceOnly

\* db.add(baseline); db.commit() of the new PC
RaceCommit(w) ==
    /\ race.w[w].pc = "commit"
    /\ LET config == race.w[w].config
       IN  race' = [race EXCEPT
             !.pcs = Append(@, [pc_id |-> config.pc_id, by |-> w,
                                status |-> NewPcStatus,
                                last_seen |-> NoTime]),
             !.configurations =
                 Append(@, [by |-> w,
                            row |-> create_db_configuration(config.pc_id,
                                                            config, TRUE)]),
             !.w[w].pc = "done", !.w[w].result = "committed"]
    /\ RaceOnly

\* db.commit() raises
RaceCommitRaises(w) ==
    /\ race.w[w].pc = "commit"
    /\ RaceDropped(w, "commit")
    /\ RaceOnly

\* the baseline rows of the PC the worker found
RaceBaselines(pc_id) ==
    {i \in 1..Len(race.configurations) :
        /\ race.configurations[i].row.pc_id = pc_id
        /\ race.configurations[i].row.is_baseline}

\* the else branch, lines 81-132, for a PC the query found: last_seen, the
\* comparison with the baseline, the rows and db.commit()
RaceRegistered(w) ==
    /\ race.w[w].pc = "registered"
    /\ LET config == race.w[w].config
           k == CHOOSE i \in 1..Len(race.pcs) :
                    race.pcs[i].pc_id = config.pc_id
       IN  IF WriterActive(w)
             THEN RaceDropped(w, "locked")
           ELSE IF RaceBaselines(config.pc_id) = {}
             THEN race' = [race EXCEPT
                    !.pcs[k].status = NoBaselineStatus,
                    !.pcs[k].last_seen = config.timestamp,
                    !.configurations =
                        Append(@, [by |-> w,
                                   row |-> create_db_configuration(
                                               config.pc_id, config, TRUE)]),
                    !.w[w].pc = "done", !.w[w].result = "committed"]
           ELSE \E b \in RaceBaselines(config.pc_id) :
                \E evs \in compare_configurations(
                               race.configurations[b].row,
                               create_db_configuration(config.pc_id, config,
                                                       FALSE)) :
                  race' = [race EXCEPT
                    !.pcs[k].status = DiffStatus(evs),
                    !.pcs[k].last_seen = config.timestamp,
                    !.configurations =
                        Append(@, [by |-> w,
                                   row |-> create_db_configuration(
                                               config.pc_id, config, FALSE)]),
                    !.events = @ \o [i \in 1..Len(evs) |->
                                       [by |-> w, pc_id |-> config.pc_id,
                                        event |-> evs[i]]],
                    !.w[w].pc = "done", !.w[w].result = "committed"]
    /\ RaceOnly

NextRace ==
    \/ \E w \in RaceWorkers : RaceQuery(w)
    \/ \E w \in RaceWorkers : RaceFlush(w)
    \/ \E w \in RaceWorkers : RaceCommit(w)
    \/ \E w \in RaceWorkers : RaceCommitRaises(w)
    \/ \E w \in RaceWorkers : RaceRegistered(w)

SpecRace == InitRace /\ [][NextRace]_vars

\* the rows worker w has persisted
RowsBy(w) ==
    {<<"pcs", i>> : i \in {j \in 1..Len(race.pcs) : race.pcs[j].by = w}}
    \cup {<<"pc_configurations", i>> :
            i \in {j \in 1..Len(race.configurations) :
                      race.configurations[j].by = w}}
    \cup {<<"change_events", i>> :
            i \in {j \in 1..Len(race.events) : race.events[j].by = w}}

\* both workers found no PC for the one machine_id of their payloads
Raced(a, b) ==
    /\ a # b
    /\ race.w[a].config.pc_id = race.w[b].config.pc_id
    /\ race.w[a].pc \notin {"query", "registered"} /\ ~race.w[a].saw
    /\ race.w[b].pc \notin {"query", "registered"} /\ ~race.w[b].saw

\* C26: when two payloads for one never-seen machine_id are processed
\* concurrently by independent workers, at most one PC row with that
\* machine_id is ever committed; the worker that does not commit the row
\* fails (an INSERT executed against the committed row raises on the unique
\* index; a worker may fail earlier, waiting for the other writer or in its
\* own commit), persists no row at all, and its payload is dropped.
C26_LoserFailsClosed ==
    /\ \A m \in MIDs :
         Cardinality({i \in 1..Len(race.pcs) : race.pcs[i].pc_id = m}) <= 1
    /\ \A a, b \in RaceWorkers :
         (Raced(a, b) /\ race.w[a].result = "committed") =>
             (/\ race.w[b].result # "committed"
              /\ RowsBy(b) = {}
              /\ (race.w[b].pc = "done" =>
                     (/\ race.w[b].result = "dropped"
                      /\ race.w[b].cause \in {"unique", "locked", "commit"})))
    /\ \A w \in RaceWorkers :
         race.w[w].result = "dropped" => RowsBy(w) = {}
    /\ \A w \in RaceWorkers :
         race.w[w].cause = "unique" =>
             \E i \in 1..Len(race.pcs) :
                 race.pcs[i].pc_id = race.w[w].config.pc_id /\ race.pcs[i].by # w

\* both workers found no PC for m1, one committed the PC and its baseline,
\* the other raised on the unique index and was dropped
C26_Witness ==
    \E a, b \in RaceWorkers :
        /\ Raced(a, b)
        /\ race.w[a].result = "committed"
        /\ race.w[b].result = "dropped" /\ race.w[b].cause = "unique"
        /\ Len(race.pcs) = 1 /\ Len(race.configurations) = 1

-----------------------------------------------------------------------------
\* an item the key expression finds no serial number (and no slot) in
Unkeyed(item, use_slot) ==
    /\ Falsy(Get(item, "serial_number"))
    /\ use_slot => Falsy(Get(item, "slot"))

\* baseline and current hold the same two distinct unkeyed items, swapped
SwappedUnkeyed(name, use_slot) ==
    LET b == ListOf(cmp.baseline, name)
        c == ListOf(cmp.current, name)
    IN  /\ Len(b) = 2
        /\ c = <<b[2], b[1]>>
        /\ b[1] # b[2]
        /\ Unkeyed(b[1], use_slot) /\ Unkeyed(b[2], use_slot)

\* C32: when baseline and current hold the same two distinct unkeyed RAM
\* modules, or the same two distinct unkeyed storage devices, in swapped
\* order, the comparison returns events for that component: the swap is
\* reported, not recognized as unchanged.
C32_SwapMisreported ==
    Compared =>
        /\ SwappedUnkeyed("ram_modules", TRUE) =>
              EventsOfType(cmp.first, "ram") # <<>>
        /\ SwappedUnkeyed("storage_devices", FALSE) =>
              EventsOfType(cmp.first, "storage") # <<>>

\* two unkeyed RAM modules were swapped and each position is reported replaced
C32_Witness ==
    /\ Compared
    /\ SwappedUnkeyed("ram_modules", TRUE)
    /\ Len(EventsOfKind(cmp.first, "ram", "replaced")) = 2

\* the same for two unkeyed storage devices
C32_WitnessStorage ==
    /\ Compared
    /\ SwappedUnkeyed("storage_devices", FALSE)
    /\ Len(EventsOfKind(cmp.first, "storage", "replaced")) = 2

-----------------------------------------------------------------------------
ComponentTypes == {"motherboard", "cpu", "ram", "storage", "gpu", "network", "psu"}

\* old_value and new_value of an event or of an event row are as its
\* event_type says
WellFormed(e) ==
    /\ e.component_type \in ComponentTypes
    /\ e.event_type \in {"added", "removed", "replaced"}
    /\ e.event_type = "added" => (IsNone(e.old_value) /\ ~IsNone(e.new_value))
    /\ e.event_type = "removed" => (~IsNone(e.old_value) /\ IsNone(e.new_value))
    /\ e.event_type = "replaced" => (~IsNone(e.old_value) /\ ~IsNone(e.new_value))

\* C33: every persisted change event has a component_type among the seven
\* names, no old_value and a new_value when added, an old_value and no
\* new_value when removed, and both when replaced.
C33_EventsWellFormed ==
    \A i \in 1..Len(events) : WellFormed(events[i])

\* C33, for the events as compare_configurations returns them
C33_ProducedWellFormed ==
    Compared => \A i \in 1..Len(cmp.first) : WellFormed(cmp.first[i])

\* an added, a removed and a replaced event are persisted
C33_Witness ==
    \A t \in {"added", "removed", "replaced"} :
        \E i \in 1..Len(events) : events[i].event_type = t

-----------------------------------------------------------------------------
\* the snapshot of the PC ingested last: rows are stored in order of commit
LastIngested(pc_id) ==
    CHOOSE i \in Snapshots(pc_id) : \A j \in Snapshots(pc_id) : j <= i

\* the comparison of the two stored rows returns no event
NoDifference(b, c) ==
    compare_configurations(configurations[b], configurations[c]) = {<<>>}

\* C34: whenever the status of a machine is normal, the snapshot ingested
\* last for it is its baseline or compares against its baseline with zero
\* events.
C34_NormalMatchesBaseline ==
    \A m \in DOMAIN pcs :
        pcs[m].status = "normal" =>
            \/ configurations[LastIngested(m)].is_baseline
            \/ \E b \in Baselines(m) : NoDifference(b, LastIngested(m))

-----------------------------------------------------------------------------
\* the request accepted in this step follows an accepted request for the
\* same machine, and no snapshot was stored in between
AcceptedTwiceInARow ==
    /\ SetBaselineDoneStep
    /\ resp.op = "set_baseline" /\ resp.code = 200
    /\ resp.pc_id = req.pc_id
    /\ resp.snapshots = Len(configurations)

\* C35: accept-as-baseline invoked twice in a row, with nothing ingested in
\* between, leaves the snapshot marked baseline that the first call marked.
C35_AcceptIdempotent ==
    [][AcceptedTwiceInARow =>
          RowIdsIn(configurations', req.pc_id, TRUE) = Baselines(req.pc_id)]_vars

-----------------------------------------------------------------------------
\* C36: after every successful ingestion, the one that registers the
\* machine included, the machine's last_seen is set and equals the capture
\* timestamp of the ingested snapshot.
C36_LastSeenSet ==
    [][CommittedStep =>
          LET m == sess.config.pc_id
          IN  /\ pcs'[m].last_seen # NoTime
              /\ pcs'[m].last_seen = sess.config.timestamp]_vars

\* C36, for the ingestions of a machine that is already registered
C36_LastSeenSetRegistered ==
    [][(CommittedStep /\ sess.path # "new") =>
          pcs'[sess.config.pc_id].last_seen = sess.config.timestamp]_vars

\* C36, the consequence: a machine whose last report is older than the
\* threshold is offline after an offline check that has read the table
\* since (no session of the worker is open).
C36_SilentMachineOffline ==
    [][(OfflineNothingStep \/ OfflineDoneStep) =>
          \A m \in DOMAIN pcs :
              LET last == LastIngested(m)
              IN  (/\ Snapshots(m) # {}
                   /\ sess = NoSess
                   /\ configurations[last].timestamp < Threshold(now)
                   /\ (req.op = "offline" => req.threshold = Threshold(now)))
                  => pcs'[m].status = "offline"]_vars

-----------------------------------------------------------------------------
\* C37: however an offline check and the ingestion of a fresh snapshot for
\* the same machine interleave, once both have committed the machine does
\* not have status offline while its last_seen is within the threshold.
C37_OfflineOnlyWhenSilent ==
    \A m \in DOMAIN pcs :
        (req = Idle /\ sess = NoSess /\ pcs[m].status = "offline") =>
            Older(pcs[m].last_seen, Threshold(now))

-----------------------------------------------------------------------------
\* the key the loop assigns to the n-th item of the list
KeyAt(items, n, kind) ==
    LET d == BuildDict(items, n - 1, kind)
    IN  IF kind = "ram" THEN ram_key(items[n], Len(d))
        ELSE storage_key(items[n], Len(d))

\* distinct items of the list get distinct keys
DistinctKeys(items, kind) ==
    \A i, j \in 1..Len(items) :
        items[i] # items[j] => KeyAt(items, i, kind) # KeyAt(items, j, kind)

\* a positional key differs from the key of every other item
FallbackDistinct(items, kind) ==
    \A i, j \in 1..Len(items) :
        (i # j /\ Unkeyed(items[i], kind = "ram")) =>
            KeyAt(items, i, kind) # KeyAt(items, j, kind)

\* every item of the list is a value of the dict the comparison works on
AllTakePart(items, kind) ==
    LET d == BuildDict(items, Len(items), kind)
    IN  \A i \in 1..Len(items) : \E k \in 1..Len(d) : d[k][2] = items[i]

ComparedLists ==
    {<<ListOf(c, "ram_modules"), "ram">> : c \in {cmp.baseline, cmp.current}}
    \cup {<<ListOf(c, "storage_devices"), "storage">> :
            c \in {cmp.baseline, cmp.current}}

\* C38: within one snapshot distinct RAM modules and distinct storage
\* devices get distinct matching keys and none overwrites another in the
\* key mapping, so every reported instance takes part in the comparison.
C38_DistinctKeys ==
    Compared =>
        \A l \in ComparedLists :
            DistinctKeys(l[1], l[2]) /\ AllTakePart(l[1], l[2])

\* C38, for the positional keys alone: a positional key never equals the
\* key of another instance.
C38_FallbackDistinct ==
    Compared => \A l \in ComparedLists : FallbackDistinct(l[1], l[2])

\* C38, for lists whose items all carry their own distinct serial number
C38_SerialsDistinct ==
    Compared =>
        \A l \in ComparedLists :
            (\A i, j \in 1..Len(l[1]) :
                /\ ~Falsy(Get(l[1][i], "serial_number"))
                /\ i # j => Get(l[1][i], "serial_number")
                              # Get(l[1][j], "serial_number"))
            => DistinctKeys(l[1], l[2]) /\ AllTakePart(l[1], l[2])

-----------------------------------------------------------------------------
\* C39: the running flag is true only while a worker thread is alive: once
\* the worker thread has left _run, for whatever cause, running is false.
C39_RunningOnlyWhileAlive == wpc = "exited" => ~running

\* every spawned worker thread has left _run
NoWorkerAlive ==
    /\ Threads # {}
    /\ \A t \in Threads : lc.threads[t] = "exited"

\* a caller's start() makes its test of the running flag
StartTestStep ==
    /\ lc.calls' = lc.calls + 1
    /\ lc.stops' = lc.stops

\* C39, for the later start(): when every worker thread has terminated, a
\* start() does not return as already running but goes on to spawn a thread.
C39_LaterStartSpawns ==
    [][(StartTestStep /\ NoWorkerAlive) =>
          \E c \in Callers : lc'.caller[c] = "set"]_vars

-----------------------------------------------------------------------------
\* C40: in every state reached through ingestion, accept-as-baseline and
\* offline checks, every stored machine has a status among normal, changed
\* and offline (never unknown), and a machine with status changed has at
\* least one persisted ChangeEvent.
C40_StatusKnown ==
    \A m \in DOMAIN pcs :
        /\ pcs[m].status \in {"normal", "changed", "offline"}
        /\ pcs[m].status = "changed" => EventsOf(m) # {}

\* a machine with a baseline is changed and has its events, after an
\* earlier payload made its baseline without a comparison
C40_Witness ==
    \E m \in DOMAIN pcs :
        /\ Baselines(m) # {}
        /\ pcs[m].status = "changed"
        /\ EventsOf(m) # {}
        /\ outcome.result = "committed"

\* a machine with a baseline went offline
C40_WitnessOffline ==
    \E m \in DOMAIN pcs : Baselines(m) # {} /\ pcs[m].status = "offline"

-----------------------------------------------------------------------------
\* send_alert returns after at least one channel was attempted
NotifiedStep ==
    /\ AlertStep
    /\ LET a == alerts'[Len(alerts')]
       IN  a.telegram.attempts + a.email.attempts > 0

\* the worker takes the next payload of the batch
NextPayloadStep == wpc = "msg" /\ batch' = Tail(batch)

\* C31: no storage session or open transaction is held while a notification
\* is being sent: when send_alert attempts a channel, the session of the
\* payload has been released.
C31_NoSessionWhileNotifying == [][NotifiedStep => sess = NoSess]_vars

\* C31, the scope of a session: when the worker begins a payload, the
\* session of the payload before it has been released, whether that payload
\* was committed or rolled back; a worker thread that has left _run holds no
\* session.
C31_SessionPerPayload ==
    [][/\ NextPayloadStep => sess = NoSess
       /\ ReturnStep => sess' = NoSess
       /\ wpc' = "exited" => sess' = NoSess]_vars

\* C31, as a property of states: while the thread is in the notification
\* step (or stuck in it) the session of the payload has been released.
C31_ReleasedBeforeAlerts == wpc \in {"alert", "blocked"} => sess = NoSess

====
